---- MODULE Spec2Model ----
(***************************************************************************)
(* Zodipus query engine: createRegistry(config).createQuery(model)(query)  *)
(* builds a QueryExecutor {query, parse, safeParse, array()}.  The model   *)
(* follows one executor: it is built from a query spec, the data store     *)
(* hands back a raw value, and one of the four parse forms is applied.     *)
(***************************************************************************)
EXTENDS Integers, Sequences, FiniteSets

VARIABLES
    passthroughEnabled, \* generator option: model schemas keep unknown keys
    model,              \* the model name bound by createQuery
    query,              \* the TQuery argument the builder was called with
    prismaQuery,        \* the executor's `query` property (compiled query)
    phase,              \* "init" | "built" | "fetched" | "done"
    input,              \* the raw value handed to the parse form
    inputAfter,         \* the same raw value as it is after the call
    op,                 \* which parse form was called last
    outcome,            \* how the call ended and what it produced
    calls,              \* the Zod schema invocations made during the call
    fedFrom,            \* where the raw value came from: "store", or
                        \* "parse" for a value parse returned before
    first,              \* history, kept for long-lived executors: the raw
                        \* value and the outcome of the first parse call
    customSchemas,      \* the @zodSchema names the Prisma schema carries
    fs,                 \* the output directory: whether it exists, its files
    runs,               \* how many times generate has run
    lastRun,            \* the last generate run: dry or not, its file-system
                        \* operations, the error it threw
    dmmf,               \* dmmf.datamodel.models: each model's fields
    maxDepth,           \* config.relationDepth as parseConfig computed it
    stack,              \* the calls of extractForModel in progress
    relations,          \* extractRelationsFromDMMF's `relations` so far
    rootIndex,          \* position of its loop over the models
    argv,               \* the command line the CLI was started with
    childEnv,           \* the environment handed to the spawned process
    child,              \* the spawned `prisma generate` process
    events,             \* events the child emitted, not yet handled
    promise,            \* the promise runPrismaGenerate returned
    exitCode            \* the CLI's exit code, once it has ended

\* the state of the query engine, and the state of the generator
engineVars == <<passthroughEnabled, model, query, prismaQuery, phase, input,
                inputAfter, op, outcome, calls, fedFrom, first>>
genVars == <<customSchemas, fs, runs, lastRun>>
extractVars == <<dmmf, maxDepth, stack, relations, rootIndex>>
cliVars == <<argv, childEnv, child, events, promise, exitCode>>

vars == <<passthroughEnabled, model, query, prismaQuery, phase, input,
          inputAfter, op, outcome, calls, fedFrom, first, customSchemas, fs,
          runs, lastRun, dmmf, maxDepth, stack, relations, rootIndex, argv,
          childEnv, child, events, promise, exitCode>>

----------------------------------------------------------------------------
(* Bounds *)

\* longest top-level array handed to array().parse / array().safeParse
MaxLen == 2

\* how many generate runs a behaviour holds
MaxRuns == 3

\* largest relationDepth the generator block spells out as a digit
MaxRelationDepth == 2

\* how many calls of extractForModel may be in progress at once
MaxStack == 6

----------------------------------------------------------------------------
(* JavaScript values.  Every value carries a tag so that null, primitives, *)
(* plain objects and arrays stay distinguishable.                          *)

Null == [t |-> "null"]
Prim(v) == [t |-> "prim", v |-> v]
Num(n) == [t |-> "num", n |-> n]
Bool(b) == [t |-> "bool", b |-> b]
Obj(f) == [t |-> "obj", f |-> f]
Arr(a) == [t |-> "arr", a |-> a]
NoValue == [t |-> "none"]

Range(s) == {s[i] : i \in DOMAIN s}

\* the object {[key]: v}
Single(key, v) == [x \in {key} |-> v]

\* object spread {...g, ...f}: the entries of g, overridden by those of f
Merge(f, g) ==
    [key \in (DOMAIN f) \cup (DOMAIN g) |->
        IF key \in DOMAIN f THEN f[key] ELSE g[key]]

\* typeof item, with null told apart as the error context does
TypeOf(v) ==
    CASE v.t = "null" -> "null"
      [] v.t = "prim" -> "string"
      [] v.t = "num" -> "number"
      [] v.t = "bool" -> "boolean"
      [] OTHER -> "object"

\* `key in item` for a string key that is not an array index
KeyIn(key, item) == item.t = "obj" /\ key \in DOMAIN item.f

----------------------------------------------------------------------------
(* Query specs.  JS `true`/`false` are RTrue/RFalse; {select: S} and        *)
(* {include: I} relation values are tagged records.                         *)

RTrue == [k |-> "true"]
RFalse == [k |-> "false"]
RSelect(s) == [k |-> "select", select |-> s]
RInclude(i) == [k |-> "include", include |-> i]

\* the three states of the optional `select` property of a query
SelAbsent == [k |-> "absent"]
SelUndefined == [k |-> "undefined"]
SelObj(f) == [k |-> "obj", f |-> f]

\* a query: its `select` property and its other entries in insertion order
Query(sel, keys, vals) == [select |-> sel, keys |-> keys, vals |-> vals]

EmptyMap == [key \in {} |-> RTrue]

----------------------------------------------------------------------------
(* The registry configuration: config.models and config.relations.         *)

\* scalar fields of the generated model schemas
ModelFields ==
    [user |-> {"id", "email"}, post |-> {"title"},
     profile |-> {"bio"}, comment |-> {"body"}]

\* config.models: the names that have a Zod schema
ConfigModels == DOMAIN ModelFields

\* config.relations, a ModelRelations value written by hand, as
\* createRegistry accepts any; a model without relations has no entry
ConfigRelations ==
    [user |->
        [posts |-> [type |-> "post", isArray |-> TRUE, relations |-> EmptyMap],
         profile |-> [type |-> "profile", isArray |-> FALSE,
                      relations |-> EmptyMap]],
     comment |->
        [replies |->
            [type |-> "comment", isArray |-> TRUE,
             relations |->
                [replies |-> [type |-> "comment", isArray |-> TRUE,
                              relations |-> EmptyMap]]]]]

\* the field values the scalar validators accept; any other value stands for
\* one the field's Zod type rejects
ValidStrings == {"1", "a@b.com", "x"}

\* optional Decimal fields of the generated model schemas:
\* z.union([z.number(), z.string(), z.custom(...)]).transform(String)
\*     .optional().nullable()
DecimalFields ==
    [user |-> {}, post |-> {}, profile |-> {}, comment |-> {"score"}]

----------------------------------------------------------------------------
(* Query compilation (the body of the builder after createParser).         *)

\* Object.fromEntries(Object.entries(query).filter(([key]) => key !== 'select'))
relationEntries(q) == [key \in Range(q.keys) |-> q.vals[key]]

\* 'select' in query && query.select
hasSelect(q) == q.select.k = "obj"

\* Object.keys(relationEntries).length > 0
hasRelations(q) == Cardinality(DOMAIN relationEntries(q)) > 0

\* selectQuery with the relation entries left out of the merge
selectQuery_fieldsOnly(q) == IF hasSelect(q) THEN q.select.f ELSE EmptyMap

\* {...(query.select ?? {}), ...relationEntries}: later spread wins
selectQuery(q) ==
    IF hasSelect(q) /\ hasRelations(q)
    THEN Merge(relationEntries(q), q.select.f)
    ELSE IF hasSelect(q) THEN q.select.f
    ELSE EmptyMap

includeQuery(q) ==
    IF ~hasSelect(q) /\ hasRelations(q) THEN relationEntries(q) ELSE EmptyMap

\* compile that falls back to `select` when the spec has neither fields nor
\* relations
compile_emptyIsSelect(q) ==
    IF hasSelect(q) \/ ~hasRelations(q) THEN [select |-> selectQuery(q)]
    ELSE [include |-> includeQuery(q)]

\* compile that picks `select` only for a non-empty field set
compile_nonEmptySelect(q) ==
    IF hasSelect(q) /\ DOMAIN q.select.f # {}
    THEN [select |-> selectQuery(q)]
    ELSE [include |-> relationEntries(q)]

\* the executor's `query`: hasSelect ? {select: selectQuery} : {include: includeQuery}
compile(q) ==
    IF hasSelect(q) THEN [select |-> selectQuery(q)]
    ELSE [include |-> includeQuery(q)]

----------------------------------------------------------------------------
(* Errors *)

NoError == [name |-> "none"]

\* new ZodipusValidationError(`Invalid data for model "..."`, {model, expected, received})
InvalidDataError(m, item) ==
    [name |-> "ZodipusValidationError", message |-> "Invalid data for model",
     model |-> m, expected |-> "object", received |-> TypeOf(item)]

\* new ZodipusValidationError('Model schema not found', {model})
SchemaNotFoundError(m) ==
    [name |-> "ZodipusValidationError", message |-> "Model schema not found",
     model |-> m]

\* new ZodipusValidationError('Model schema not found for relation', {model, field, path})
RelationSchemaNotFoundError(m, relationType, key) ==
    [name |-> "ZodipusValidationError",
     message |-> "Model schema not found for relation",
     model |-> relationType, field |-> key, path |-> <<m, key>>]

\* what a Zod schema throws: the paths of the offending fields
ZodError(issues) == [name |-> "ZodError", issues |-> issues]

\* what the runtime throws when `.map` is called on a non-array
TypeError == [name |-> "TypeError"]

----------------------------------------------------------------------------
(* The generated model schemas: z.object({...scalar fields}) with the      *)
(* optional .passthrough() modifier.                                       *)

Restrict(f, S) == [key \in (DOMAIN f) \cap S |-> f[key]]

\* String(n) for the numbers a Decimal column holds in the model
NumString(n) == <<"0", "1", "2", "3", "4", "5", "6", "7", "8", "9">>[n + 1]

\* Decimal validator that takes numbers only: z.number().transform(String)
DecimalAccepts_numbersOnly(v) == v.t \in {"num", "null"}

\* what the Decimal validator accepts: a number, a string, or an object
\* with toString (a boolean has none of these); null passes through
\* .nullable()
DecimalAccepts(v) == v.t \in {"num", "prim", "obj", "arr", "null"}

\* .transform(String) on an accepted value; null stays null.  The Decimal
\* columns of the model hold no arrays, so String(array) is left out.
DecimalOut(v) ==
    CASE v.t = "num" -> Prim(NumString(v.n))
      [] v.t = "obj" -> Prim("[object Object]")
      [] OTHER -> v

\* fields of model m that value v lacks or holds an invalid value for
BadFields(m, v) ==
    {fld \in ModelFields[m] :
        \/ fld \notin DOMAIN v.f
        \/ v.f[fld].t # "prim"
        \/ v.f[fld].v \notin ValidStrings}
    \cup {fld \in DecimalFields[m] \cap DOMAIN v.f : ~DecimalAccepts(v.f[fld])}

\* the schema's output for the keys it keeps: Decimal fields transformed
Transformed(m, f) ==
    [key \in DOMAIN f |->
        IF key \in DecimalFields[m] THEN DecimalOut(f[key]) ELSE f[key]]

\* config.models[m].parse(v): throws a ZodError, or returns a fresh object
\* holding the schema's fields (all keys under passthrough)
SchemaParse(m, v) ==
    IF v.t # "obj" THEN [err |-> ZodError({<<>>}), val |-> NoValue]
    ELSE IF BadFields(m, v) # {}
         THEN [err |-> ZodError({<<fld>> : fld \in BadFields(m, v)}),
               val |-> NoValue]
    ELSE [err |-> NoError,
          val |-> IF passthroughEnabled THEN Obj(Transformed(m, v.f))
                  ELSE Obj(Transformed(m,
                           Restrict(v.f, ModelFields[m] \cup DecimalFields[m])))]

\* one schema invocation: which schema, on what, for which top-level item
\* (idx) and under which relation key ("self" for the top-level item)
Call(m, arg, idx, via) == [model |-> m, arg |-> arg, item |-> idx, via |-> via]

\* what a step of the parser did: the error it threw (or NoError), the value
\* it produced, and the schema invocations it made
Done(v) == [err |-> NoError, val |-> v, calls |-> <<>>]
Failed(e) == [err |-> e, val |-> NoValue, calls |-> <<>>]
Logged(r, c) == [err |-> r.err, val |-> r.val, calls |-> <<c>>]

\* schema.parse(v), recorded as an invocation
Validated(m, v, idx, via) == Logged(SchemaParse(m, v), Call(m, v, idx, via))

----------------------------------------------------------------------------
(* parseRelations *)

\* result[key] = v
SetKey(obj, key, v) == Obj(Merge(Single(key, v), obj.f))

\* Array.prototype.map: the callback's result for one element, then the
\* rest of the array, which is not reached when the callback throws
MapCons(head, rest) ==
    IF head.err # NoError
    THEN [err |-> head.err, val |-> <<>>, calls |-> head.calls]
    ELSE [err |-> rest.err,
          val |-> IF rest.err = NoError THEN <<head.val>> \o rest.val
                  ELSE <<>>,
          calls |-> head.calls \o rest.calls]

\* the callback of `.map` over an array relation, for one element
relationElement(m, relationType, returnAsIs, rel, idx, key) ==
    IF returnAsIs THEN Done(rel)
    ELSE IF relationType \notin ConfigModels
    THEN Failed(RelationSchemaNotFoundError(m, relationType, key))
    ELSE Validated(relationType, rel, idx, key)

\* (item[key] as unknown[]).map(...) from element j on
RECURSIVE mapRelation(_, _, _, _, _, _, _)
mapRelation(m, relationType, returnAsIs, arr, idx, key, j) ==
    IF j > Len(arr) THEN Done(<<>>)
    ELSE MapCons(relationElement(m, relationType, returnAsIs, arr[j], idx, key),
                 mapRelation(m, relationType, returnAsIs, arr, idx, key, j + 1))

\* the mapped array as a JS value
ArrayOf(r) ==
    [err |-> r.err, val |-> IF r.err = NoError THEN Arr(r.val) ELSE NoValue,
     calls |-> r.calls]

\* the state of parseRelations before its relation loop: `result` assigned,
\* or an exception on its way out
LoopState(r) == [err |-> r.err, result |-> r.val, calls |-> r.calls]

\* baseObject that runs the model schema whether or not the query selects
baseObject_alwaysValidates(m, q, item, idx) ==
    IF item.t \notin {"obj", "arr"}
    THEN LoopState(Failed(InvalidDataError(m, item)))
    ELSE IF m \notin ConfigModels
    THEN LoopState(Failed(SchemaNotFoundError(m)))
    ELSE LoopState(Validated(m, item, idx, "self"))

\* baseObject whose shape check is `typeof item !== 'object'` alone
baseObject_nullPasses(m, q, item, idx) ==
    IF item.t \notin {"obj", "arr", "null"}
    THEN LoopState(Failed(InvalidDataError(m, item)))
    ELSE IF hasSelect(q) THEN LoopState(Done(item))
    ELSE IF m \notin ConfigModels
    THEN LoopState(Failed(SchemaNotFoundError(m)))
    ELSE LoopState(Validated(m, item, idx, "self"))

\* baseObject that, under a select, copies the selected fields and the
\* declared relation keys instead of taking the item as it is
baseObject_picksDeclared(m, q, item, idx) ==
    IF item.t \notin {"obj", "arr"}
    THEN LoopState(Failed(InvalidDataError(m, item)))
    ELSE IF hasSelect(q) /\ item.t = "obj"
    THEN LoopState(Done(Obj(Restrict(item.f,
                                     (DOMAIN q.select.f) \cup Range(q.keys)))))
    ELSE IF hasSelect(q) THEN LoopState(Done(item))
    ELSE IF m \notin ConfigModels
    THEN LoopState(Failed(SchemaNotFoundError(m)))
    ELSE LoopState(Validated(m, item, idx, "self"))

\* the shape check and the base object (hasSelect branch)
baseObject(m, q, item, idx) ==
    IF item.t \notin {"obj", "arr"}
    THEN LoopState(Failed(InvalidDataError(m, item)))
    ELSE IF hasSelect(q) THEN LoopState(Done(item))
    ELSE IF m \notin ConfigModels
    THEN LoopState(Failed(SchemaNotFoundError(m)))
    ELSE LoopState(Validated(m, item, idx, "self"))

\* relationHasSelectOrInclude that looks for 'include' only
relationHasSelectOrInclude_includeOnly(value) == value.k = "include"

\* typeof value === 'object' && value !== null &&
\* ('select' in value || 'include' in value)
relationHasSelectOrInclude(value) == value.k \in {"select", "include"}

\* singleRelation without the `relData === null` branch
singleRelation_noNullBranch(m, relationType, value, relData, idx, key) ==
    IF relationHasSelectOrInclude(value) THEN Done(relData)
    ELSE IF relationType \notin ConfigModels
    THEN Failed(RelationSchemaNotFoundError(m, relationType, key))
    ELSE Validated(relationType, relData, idx, key)

\* the else branch of Array.isArray(item[key]): a single-valued relation
singleRelation(m, relationType, value, relData, idx, key) ==
    IF relData = Null THEN Done(Null)
    ELSE IF relationHasSelectOrInclude(value) THEN Done(relData)
    ELSE IF relationType \notin ConfigModels
    THEN Failed(RelationSchemaNotFoundError(m, relationType, key))
    ELSE Validated(relationType, relData, idx, key)

\* the value computed for result[key]
relationValue(m, relationType, value, relData, idx, key) ==
    IF relData.t = "arr"
    THEN ArrayOf(mapRelation(m, relationType,
                             relationHasSelectOrInclude(value),
                             relData.a, idx, key, 1))
    ELSE singleRelation(m, relationType, value, relData, idx, key)

\* result[key] = <r's value>, unless computing it threw
Assign(st, key, r) ==
    [err |-> r.err,
     result |-> IF r.err = NoError THEN SetKey(st.result, key, r.val)
                ELSE st.result,
     calls |-> st.calls \o r.calls]

\* relationStep that sets result[key] = null for a key the item lacks
relationStep_absentIsNull(m, q, item, idx, key, st) ==
    IF ~KeyIn(key, item) THEN Assign(st, key, Done(Null))
    ELSE IF m \notin DOMAIN ConfigRelations THEN st
    ELSE IF key \notin DOMAIN ConfigRelations[m] THEN st
    ELSE Assign(st, key,
                relationValue(m, ConfigRelations[m][key].type, q.vals[key],
                              item.f[key], idx, key))

\* one iteration of `for (const [key, value] of Object.entries(query))`
\* for a key other than 'select'; st is the loop's state so far
relationStep(m, q, item, idx, key, st) ==
    IF ~KeyIn(key, item) THEN st
    ELSE IF m \notin DOMAIN ConfigRelations THEN st
    ELSE IF key \notin DOMAIN ConfigRelations[m] THEN st
    ELSE Assign(st, key,
                relationValue(m, ConfigRelations[m][key].type, q.vals[key],
                              item.f[key], idx, key))

\* the relation loop from entry i on; a throw leaves the loop
RECURSIVE relationLoop(_, _, _, _, _, _)
relationLoop(m, q, item, idx, i, st) ==
    IF st.err # NoError \/ i > Len(q.keys) THEN st
    ELSE relationLoop(m, q, item, idx, i + 1,
                      relationStep(m, q, item, idx, q.keys[i], st))

\* how parseRelations ends.  `after` is the raw item once the call is over:
\* under hasSelect `result` is the item itself, so the assignments to
\* result[key] are made on the raw item.
endParseRelations(q, item, st) ==
    [err |-> st.err,
     val |-> IF st.err = NoError THEN st.result ELSE NoValue,
     calls |-> st.calls,
     after |-> IF hasSelect(q) /\ st.result # NoValue THEN st.result
               ELSE item]

\* parseRelations(item) for the executor of (m, q), item being element idx
\* of the top-level data
parseRelations(m, q, item, idx) ==
    endParseRelations(q, item,
        relationLoop(m, q, item, idx, 1, baseObject(m, q, item, idx)))

----------------------------------------------------------------------------
(* createParser and the executor's four parse forms *)

\* ItemsCons that collects the results back to front
ItemsCons_reversed(head, rest, untouched) ==
    IF head.err # NoError
    THEN [err |-> head.err, val |-> <<>>, calls |-> head.calls,
          after |-> <<head.after>> \o untouched]
    ELSE [err |-> rest.err,
          val |-> IF rest.err = NoError THEN rest.val \o <<head.val>>
                  ELSE <<>>,
          calls |-> head.calls \o rest.calls,
          after |-> <<head.after>> \o rest.after]

\* ItemsCons that parses the remaining elements before it reports a failure
ItemsCons_keepsGoing(head, rest, untouched) ==
    [err |-> IF head.err # NoError THEN head.err ELSE rest.err,
     val |-> IF head.err = NoError /\ rest.err = NoError
             THEN <<head.val>> \o rest.val
             ELSE <<>>,
     calls |-> head.calls \o rest.calls,
     after |-> <<head.after>> \o rest.after]

\* arrayData.map(parseRelations): one element, then the rest of the array,
\* which stays untouched when the element's callback throws
ItemsCons(head, rest, untouched) ==
    IF head.err # NoError
    THEN [err |-> head.err, val |-> <<>>, calls |-> head.calls,
          after |-> <<head.after>> \o untouched]
    ELSE [err |-> rest.err,
          val |-> IF rest.err = NoError THEN <<head.val>> \o rest.val
                  ELSE <<>>,
          calls |-> head.calls \o rest.calls,
          after |-> <<head.after>> \o rest.after]

\* arrayData.map(parseRelations) from element i on, in input order
RECURSIVE mapItems(_, _, _, _)
mapItems(m, q, arr, i) ==
    IF i > Len(arr)
    THEN [err |-> NoError, val |-> <<>>, calls |-> <<>>, after |-> <<>>]
    ELSE ItemsCons(parseRelations(m, q, arr[i], i),
                   mapItems(m, q, arr, i + 1),
                   SubSeq(arr, i + 1, Len(arr)))

\* the mapped top-level array as a JS value
ItemsOf(r) ==
    [err |-> r.err, val |-> IF r.err = NoError THEN Arr(r.val) ELSE NoValue,
     calls |-> r.calls, after |-> Arr(r.after)]

\* createParser(isArray)(data)
createParser(m, q, isArray, data) ==
    IF isArray THEN
        IF data.t # "arr"
        THEN [err |-> TypeError, val |-> NoValue, calls |-> <<>>,
              after |-> data]
        ELSE ItemsOf(mapItems(m, q, data.a, 1))
    ELSE parseRelations(m, q, data, 1)

Returned(v) == [kind |-> "returned", value |-> v]
Threw(e) == [kind |-> "threw", error |-> e]
NoOutcome == [kind |-> "none"]

\* parse / array().parse: the parser's result, or its exception
parse(r) == IF r.err = NoError THEN Returned(r.val) ELSE Threw(r.err)

\* safeParse whose catch lets a TypeError through
safeParse_rethrowsTypeError(r) ==
    IF r.err = NoError THEN Returned([success |-> TRUE, data |-> r.val])
    ELSE IF r.err = TypeError THEN Threw(r.err)
    ELSE Returned([success |-> FALSE, error |-> r.err])

\* safeParse that takes a value `.map` cannot be called on for an empty array
safeParse_nonArrayIsEmpty(r) ==
    IF r.err = NoError THEN Returned([success |-> TRUE, data |-> r.val])
    ELSE IF r.err = TypeError
    THEN Returned([success |-> TRUE, data |-> Arr(<<>>)])
    ELSE Returned([success |-> FALSE, error |-> r.err])

\* safeParse / array().safeParse: try { {success: true, data} }
\* catch (error) { {success: false, error} }
safeParse(r) ==
    IF r.err = NoError THEN Returned([success |-> TRUE, data |-> r.val])
    ELSE Returned([success |-> FALSE, error |-> r.err])

----------------------------------------------------------------------------
(* The values the model draws its inputs from *)

SeqsUpTo(S, n) == UNION {[1..len -> S] : len \in 0..n}

PostOk == Obj([title |-> Prim("x")])
PostExtra == Obj([title |-> Prim("x"), views |-> Prim("1")])
PostBad == Obj([views |-> Prim("1")])
ProfileExtra == Obj([bio |-> Prim("x"), age |-> Prim("1")])
ProfileBad == Obj([age |-> Prim("1")])

UserValid == [id |-> Prim("1"), email |-> Prim("a@b.com")]

\* a field value the schema rejects
Rejected == Prim("INVALID")

\* rows that pass the user schema, and rows that do not
UserBases ==
    { UserValid,
      [id |-> Prim("1"), email |-> Prim("a@b.com"), name |-> Prim("x")] }

UserBadBases ==
    { [id |-> Prim("1"), email |-> Rejected],
      [id |-> Prim("1")] }

PostsOptions ==
    { EmptyMap, [posts |-> Null], [posts |-> Arr(<<>>)],
      [posts |-> Arr(<<PostExtra, PostOk>>)],
      [posts |-> Arr(<<PostExtra, PostBad>>)],
      [posts |-> PostExtra] }

ProfileOptions ==
    { EmptyMap, [profile |-> Null], [profile |-> ProfileExtra],
      [profile |-> ProfileBad] }

UserObjects ==
    {Obj(Merge(b, Merge(p, pr))) : b \in UserBases, p \in PostsOptions,
                                   pr \in ProfileOptions}
    \cup {Obj(b) : b \in UserBadBases}
    \cup {Obj(Merge(b, [posts |-> Arr(<<PostExtra, PostOk>>)])) :
            b \in UserBadBases}
    \cup {Obj(Merge(UserValid, [bogus |-> Null])),
          Obj(Merge(UserValid, [bogus |-> Prim("x")]))}

\* the items top-level arrays are made of
UserItems ==
    { Obj([id |-> Prim("1"), email |-> Prim("a@b.com"), name |-> Prim("x")]),
      Obj([id |-> Prim("1"), email |-> Rejected]),
      Obj(Merge(UserValid, [posts |-> Arr(<<PostExtra>>)])) }

CommentOk == Obj([body |-> Prim("x")])
CommentNested ==
    Obj([body |-> Prim("x"), likes |-> Prim("1"),
         replies |-> Arr(<<CommentOk>>)])

\* a comment whose Decimal column the data store returned as a number
CommentScored == Obj([body |-> Prim("x"), score |-> Num(5)])

CommentObjects ==
    { CommentOk, CommentNested, CommentScored,
      Obj([body |-> Prim("x"), score |-> Prim("5")]),
      Obj([body |-> Prim("x"), score |-> Bool(TRUE)]),
      Obj([body |-> Prim("x"), replies |-> Arr(<<CommentNested>>)]),
      Obj([body |-> Prim("x"), replies |-> Arr(<<CommentScored>>)]),
      Obj([body |-> Rejected, replies |-> Arr(<<>>)]) }

CommentItems == {CommentNested, CommentScored, Obj([likes |-> Prim("1")])}

\* rows of a model that has a schema but no entry in config.relations
PostObjects ==
    { PostOk, PostExtra, PostBad,
      Obj([title |-> Prim("x"), author |-> Obj(UserValid)]) }

PostItems == {PostExtra, PostBad, Null}

Objects(m) ==
    CASE m = "user" -> UserObjects
      [] m = "comment" -> CommentObjects
      [] OTHER -> PostObjects

Items(m) ==
    CASE m = "user" -> UserItems
      [] m = "comment" -> CommentItems
      [] OTHER -> PostItems

\* what the data store may hand back for a query on model m
Inputs(m) ==
    Objects(m) \cup {Null, Prim("x")}
    \cup {Arr(s) : s \in SeqsUpTo(Items(m), MaxLen)}

\* `select` properties
UserSelects ==
    { SelAbsent, SelUndefined, SelObj(EmptyMap),
      SelObj([id |-> RTrue, email |-> RTrue]),
      SelObj([id |-> RFalse]) }

CommentSelects == {SelAbsent, SelObj([body |-> RTrue])}

\* relation values per relation key; EmptyMap stands for "key not given"
PostsSpecs ==
    { EmptyMap, [posts |-> RTrue], [posts |-> RSelect([title |-> RTrue])],
      [posts |-> RInclude([comments |-> RTrue])] }

ProfileSpecs ==
    { EmptyMap, [profile |-> RTrue], [profile |-> RSelect([bio |-> RTrue])],
      [profile |-> RInclude(EmptyMap)] }

BogusSpecs == {EmptyMap, [bogus |-> RTrue]}

RepliesSpecs ==
    { EmptyMap, [replies |-> RTrue], [replies |-> RSelect([body |-> RTrue])],
      [replies |-> RInclude([replies |-> RTrue])],
      [replies |-> RInclude([replies |-> RInclude([replies |-> RTrue])])],
      [replies |-> RInclude([bogus |-> RTrue])] }

\* the keys of a relation map in the order the caller wrote them
KeyOrder(vals, order) == SelectSeq(order, LAMBDA key : key \in DOMAIN vals)

UserQueries ==
    {Query(sel, KeyOrder(Merge(p, Merge(pr, b)), <<"posts", "profile", "bogus">>),
           Merge(p, Merge(pr, b))) :
        sel \in UserSelects, p \in PostsSpecs, pr \in ProfileSpecs,
        b \in BogusSpecs}

CommentQueries ==
    {Query(sel, KeyOrder(Merge(r, b), <<"bogus", "replies">>), Merge(r, b)) :
        sel \in CommentSelects, r \in RepliesSpecs, b \in BogusSpecs}

\* queries on a model without relations, and on a name that is in neither
\* config.models nor config.relations
PostQueries ==
    { Query(SelAbsent, <<>>, EmptyMap),
      Query(SelObj([title |-> RTrue]), <<>>, EmptyMap),
      Query(SelAbsent, <<"author">>, [author |-> RTrue]) }

GhostQueries ==
    { Query(SelAbsent, <<>>, EmptyMap),
      Query(SelObj([title |-> RTrue]), <<>>, EmptyMap) }

\* the names createQuery is called with: "post" has a schema but no relations
\* entry, "ghost" has neither
ModelNames == {"user", "comment", "post", "ghost"}

Queries(m) ==
    CASE m = "user" -> UserQueries
      [] m = "comment" -> CommentQueries
      [] m = "post" -> PostQueries
      [] OTHER -> GhostQueries

NoQuery == Query(SelAbsent, <<>>, EmptyMap)

\* the history of an executor no parse call has been made on yet; `track`
\* tells whether a history is kept at all
NoFirst(track) ==
    [track |-> track, set |-> FALSE, raw |-> NoValue, outcome |-> NoOutcome,
     later |-> FALSE]

----------------------------------------------------------------------------
(* The generator: generate(options) writes the output directory's files.   *)

\* the schema names @zodSchema annotations refer to
SchemaNames == {"UserSettingsSchema", "PostMetadataSchema"}

\* the file system under the output directory
NoOutputDir == [dir |-> FALSE, files |-> [name \in {} |-> NoValue]]

\* no generate run yet
NoRun == [cmd |-> "none", dryRun |-> FALSE, log |-> <<>>, error |-> "none"]

\* file contents: models.ts by the custom schemas it imports, custom-schemas.ts
\* by its exports and what each is defined as, the other files by their kind
ModelsCode(schemas) == [imports |-> schemas]
Placeholder == "z.any()"
Template(schemas) == [exports |-> [name \in schemas |-> Placeholder]]
GeneratedCode(kind) == [generated |-> kind]

\* existsSync(path)
existsSync(f, name) == name \in DOMAIN f.files

\* a run in progress: the file system, the operations made so far, and the
\* error that ended the run, if any
Started(f, dry) == [fs |-> f, dryRun |-> dry, log |-> <<>>, error |-> "none"]

\* writeFileSync(path, content), skipped on a dry run: fails with ENOENT
\* when the directory does not exist
writeFileSync(run, name, content) ==
    IF run.error # "none" \/ run.dryRun THEN run
    ELSE IF ~run.fs.dir
    THEN [run EXCEPT !.error = "ENOENT",
                     !.log = Append(@, [op |-> "write", file |-> name,
                                        ok |-> FALSE])]
    ELSE [run EXCEPT !.fs.files = Merge(Single(name, content), @),
                     !.log = Append(@, [op |-> "write", file |-> name,
                                        ok |-> TRUE])]

\* mkdirSync that is made outside the `if (!config.dryRun)` branch
mkdirSync_onDryRun(run) ==
    IF run.error # "none" THEN run
    ELSE [run EXCEPT !.fs.dir = TRUE,
                     !.log = Append(@, [op |-> "mkdir", file |-> ".",
                                        ok |-> TRUE])]

\* mkdirSync(dirname(path), {recursive: true}), skipped on a dry run
mkdirSync(run) ==
    IF run.error # "none" \/ run.dryRun THEN run
    ELSE [run EXCEPT !.fs.dir = TRUE,
                     !.log = Append(@, [op |-> "mkdir", file |-> ".",
                                        ok |-> TRUE])]

\* generateCustomSchemasTemplate that writes the template over an existing
\* file
generateCustomSchemasTemplate_overwrites(run, schemas) ==
    writeFileSync(run, "custom-schemas.ts", Template(schemas))

\* generateCustomSchemasTemplate: an existing custom-schemas.ts is left alone
generateCustomSchemasTemplate(run, schemas) ==
    IF run.error # "none" THEN run
    ELSE IF existsSync(run.fs, "custom-schemas.ts") THEN run
    ELSE writeFileSync(run, "custom-schemas.ts", Template(schemas))

\* the template step is taken only when custom schemas are used
customSchemasStep(run, schemas) ==
    IF schemas # {} THEN generateCustomSchemasTemplate(run, schemas) ELSE run

\* generateCleanModelSchemas: enums.ts, models.ts, then the template
generateCleanModelSchemas(run, schemas) ==
    customSchemasStep(
        writeFileSync(
            writeFileSync(run, "enums.ts", GeneratedCode("enums")),
            "models.ts", ModelsCode(schemas)),
        schemas)

\* generate, after parseConfig: the model schemas, the relations file in a
\* directory made for it, the index file
generate(f, schemas, dry) ==
    writeFileSync(
        writeFileSync(
            mkdirSync(generateCleanModelSchemas(Started(f, dry), schemas)),
            "generated-relations.ts", GeneratedCode("relations")),
        "generated-index.ts", GeneratedCode("index"))

\* generate(options), from its first line: under ZODIPUS_CMD = 'inspect' the
\* schema is printed and nothing is generated; without an output directory
\* the run throws before it touches a file
generateOptions(f, schemas, dry, cmd, output) ==
    IF cmd = "inspect" THEN Started(f, dry)
    ELSE IF ~output
    THEN [Started(f, dry) EXCEPT !.error = "No output directory specified"]
    ELSE generate(f, schemas, dry)

----------------------------------------------------------------------------
(* Relation metadata: parseConfig's relationDepth and                      *)
(* extractRelationsFromDMMF.  The recursion of extractForModel is run one  *)
(* call frame at a time.                                                   *)

\* Number.NaN; the other numbers are Num(n)
NaN == [t |-> "nan"]

\* a generator config value: absent, a string (its characters in order), or
\* an array of strings
Absent == [k |-> "absent"]
Str(chars) == [k |-> "string", chars |-> chars]
List(items) == [k |-> "array", items |-> items]

\* getConfigValue(key, defaultValue):
\* Array.isArray(value) ? value[0] ?? defaultValue : value ?? defaultValue
getConfigValue(value, defaultValue) ==
    IF value.k = "array"
    THEN (IF value.items = <<>> THEN defaultValue ELSE value.items[1])
    ELSE IF value.k = "absent" THEN defaultValue
    ELSE value

DigitChars == <<"0", "1", "2", "3", "4", "5", "6", "7", "8", "9">>
IsDigit(c) == \E d \in DOMAIN DigitChars : DigitChars[d] = c
DigitOf(c) == (CHOOSE d \in DOMAIN DigitChars : DigitChars[d] = c) - 1

\* the run of digits from position i on, read in base 10 after `acc`
RECURSIVE digitsFrom(_, _, _)
digitsFrom(chars, i, acc) ==
    IF i > Len(chars) THEN acc
    ELSE IF ~IsDigit(chars[i]) THEN acc
    ELSE digitsFrom(chars, i + 1, 10 * acc + DigitOf(chars[i]))

\* where the digits start: after one optional sign
signLength(chars) ==
    IF chars # <<>> /\ chars[1] \in {"-", "+"} THEN 1 ELSE 0

\* Number.parseInt(string): an optional sign and the longest run of digits
\* after it, whatever follows; NaN when there is no digit there (the model's
\* strings carry no leading white space)
parseInt(chars) ==
    IF signLength(chars) + 1 > Len(chars) THEN NaN
    ELSE IF ~IsDigit(chars[signLength(chars) + 1]) THEN NaN
    ELSE IF chars[1] = "-"
    THEN Num(0 - digitsFrom(chars, 2, 0))
    ELSE Num(digitsFrom(chars, signLength(chars) + 1, 0))

\* parseConfig's relationDepth:
\* Number.parseInt(getConfigValue('relationDepth', '5'))
relationDepth(value) == parseInt(getConfigValue(value, Str(<<"5">>)).chars)

\* the models of the Prisma schema, in the order of dmmf.datamodel.models
ModelList == <<"User", "Post", "Comment">>

\* str.charAt(0).toLowerCase() + str.slice(1), on the names of the models
toCamelCase(str) ==
    CASE str = "User" -> "user"
      [] str = "Post" -> "post"
      [] str = "Comment" -> "comment"
      [] OTHER -> str

\* DMMF fields: a scalar one, and a relation field (kind 'object')
ScalarField(name) ==
    [name |-> name, kind |-> "scalar", type |-> "String", isList |-> FALSE]
RelationField(name, type, isList) ==
    [name |-> name, kind |-> "object", type |-> type, isList |-> isList]

\* the relation fields a schema of the model may declare, in schema order
EdgeList ==
    << [model |-> "User", field |-> RelationField("posts", "Post", TRUE)],
       [model |-> "Post", field |-> RelationField("author", "User", FALSE)],
       [model |-> "Post", field |-> RelationField("comments", "Comment", TRUE)],
       [model |-> "Comment", field |-> RelationField("post", "Post", FALSE)],
       [model |-> "Comment",
        field |-> RelationField("replies", "Comment", TRUE)],
       [model |-> "Comment",
        field |-> RelationField("author", "User", FALSE)] >>

FieldsIn(edges) == [i \in DOMAIN edges |-> edges[i].field]

\* model.fields of model m in the schema that declares the relations E
FieldsOf(m, E) ==
    <<ScalarField("id")>>
        \o FieldsIn(SelectSeq(EdgeList, LAMBDA e : e \in E /\ e.model = m))

\* every schema over the three models: acyclic ones, self-references,
\* cycles of two and of three models
Schemas ==
    {[m \in Range(ModelList) |-> FieldsOf(m, E)] : E \in SUBSET Range(EdgeList)}

\* the values the generator block may give relationDepth
RelationDepths ==
    {Absent, Str(<<"-", "1">>), Str(<<"x">>), Str(<<"1", ".", "5">>),
     List(<<>>), List(<<Str(<<"2">>), Str(<<"0">>)>>)}
    \cup {Str(<<NumString(n)>>) : n \in 0..MaxRelationDepth}

\* a call of extractForModel(modelName, depth, visited) at its first line
Frame(modelName, depth, visited) ==
    [modelName |-> modelName, depth |-> depth, visited |-> visited,
     pc |-> "entry", i |-> 1, result |-> EmptyMap]

\* depth > maxDepth; a comparison with NaN is false
Greater(depth, max) == max.t = "num" /\ depth > max.n

\* the first line's test without the visited set
returnsEmpty_depthOnly(frame, max) == Greater(frame.depth, max)

\* depth > maxDepth || visited.has(modelName)
returnsEmpty(frame, max) ==
    Greater(frame.depth, max) \/ frame.modelName \in frame.visited

\* the RelationConfig assigned to result[field.name]: `relations` is there
\* only when the nested map has a key
RelationConfigOf(field, nestedRelations) ==
    IF DOMAIN nestedRelations # {}
    THEN [type |-> toCamelCase(field.type), isArray |-> field.isList,
          relations |-> nestedRelations]
    ELSE [type |-> toCamelCase(field.type), isArray |-> field.isList]

\* no extraction under way
NoExtraction ==
    /\ dmmf = EmptyMap
    /\ maxDepth = NoValue
    /\ stack = <<>>
    /\ relations = EmptyMap
    /\ rootIndex = 1

----------------------------------------------------------------------------
(* The CLI: `zodipus inspect` and `zodipus generate` spawn                 *)
(* `prisma generate` and wait for it.                                      *)

NoCommand == [command |-> "none", options |-> {}]
NoChild == [state |-> "none", code |-> NoValue]
NoPromise == [state |-> "none", reason |-> NoValue]

\* the CLI has not been started
NoCli ==
    /\ argv = NoCommand
    /\ childEnv = EmptyMap
    /\ child = NoChild
    /\ events = <<>>
    /\ promise = NoPromise
    /\ exitCode = NoValue

----------------------------------------------------------------------------
(* The state machine *)

Init ==
    /\ passthroughEnabled \in BOOLEAN
    /\ model = "none"
    /\ query = NoQuery
    /\ prismaQuery = EmptyMap
    /\ phase = "init"
    /\ input = NoValue
    /\ inputAfter = NoValue
    /\ op = "none"
    /\ outcome = NoOutcome
    /\ calls = <<>>
    /\ fedFrom = "none"
    /\ first = NoFirst(FALSE)
    /\ customSchemas = {}
    /\ fs = NoOutputDir
    /\ runs = 0
    /\ lastRun = NoRun
    /\ NoExtraction
    /\ NoCli

\* registry.createQuery(m)(q): a fresh executor with its compiled query
CreateQuery(m, q) ==
    /\ phase = "init"
    /\ model' = m
    /\ query' = q
    /\ prismaQuery' = compile(q)
    /\ phase' = "built"
    /\ UNCHANGED <<passthroughEnabled, input, inputAfter, op, outcome, calls,
                   fedFrom, first>>
    /\ UNCHANGED <<genVars, extractVars, cliVars>>

\* the data store returns `raw` for the executor's query
Fetch(raw) ==
    /\ phase = "built"
    /\ input' = raw
    /\ inputAfter' = raw
    /\ phase' = "fetched"
    /\ fedFrom' = "store"
    /\ UNCHANGED <<passthroughEnabled, model, query, prismaQuery, op, outcome,
                   calls, first>>
    /\ UNCHANGED <<genVars, extractVars, cliVars>>

\* the history after a call of form `name` that ended with `out`: the first
\* parse call is remembered, and so is that a call came after it
Remember(name, out) ==
    IF ~first.track THEN first
    ELSE IF first.set THEN [first EXCEPT !.later = TRUE]
    ELSE IF name = "parse"
    THEN [first EXCEPT !.set = TRUE, !.raw = input, !.outcome = out]
    ELSE first

\* EndCall of a parser that deletes `select` from the query it closes over
EndCall_dropsSelect(name, safe, r) ==
    /\ phase = "fetched"
    /\ outcome' = IF safe THEN safeParse(r) ELSE parse(r)
    /\ calls' = r.calls
    /\ inputAfter' = r.after
    /\ op' = name
    /\ phase' = "done"
    /\ first' = Remember(name, outcome')
    /\ query' = [query EXCEPT !.select = SelAbsent]
    /\ UNCHANGED <<passthroughEnabled, model, prismaQuery, input, fedFrom>>
    /\ UNCHANGED <<genVars, extractVars, cliVars>>

\* a call of a parse form on the fetched value ends: r is what the parser
\* did, `safe` tells the safeParse forms from the parse forms
EndCall(name, safe, r) ==
    /\ phase = "fetched"
    /\ outcome' = IF safe THEN safeParse(r) ELSE parse(r)
    /\ calls' = r.calls
    /\ inputAfter' = r.after
    /\ op' = name
    /\ phase' = "done"
    /\ first' = Remember(name, outcome')
    /\ UNCHANGED <<passthroughEnabled, model, query, prismaQuery, input,
                   fedFrom>>
    /\ UNCHANGED <<genVars, extractVars, cliVars>>

\* executor.parse(input)
Parse == EndCall("parse", FALSE, createParser(model, query, FALSE, input))

\* executor.safeParse(input)
SafeParse == EndCall("safeParse", TRUE, createParser(model, query, FALSE, input))

\* executor.array().parse(input)
ArrayParse ==
    EndCall("array.parse", FALSE, createParser(model, query, TRUE, input))

\* executor.array().safeParse(input)
ArraySafeParse ==
    EndCall("array.safeParse", TRUE, createParser(model, query, TRUE, input))

\* the caller is done with the result; the executor is kept for the next call
Reuse ==
    /\ phase = "done"
    /\ phase' = "built"
    /\ input' = NoValue
    /\ inputAfter' = NoValue
    /\ op' = "none"
    /\ outcome' = NoOutcome
    /\ calls' = <<>>
    /\ fedFrom' = "none"
    /\ UNCHANGED <<passthroughEnabled, model, query, prismaQuery, first>>
    /\ UNCHANGED <<genVars, extractVars, cliVars>>

\* the caller hands the value that parse returned back to the executor
ParseAgain ==
    /\ phase = "done"
    /\ op = "parse"
    /\ outcome.kind = "returned"
    /\ input' = outcome.value
    /\ inputAfter' = outcome.value
    /\ fedFrom' = "parse"
    /\ phase' = "fetched"
    /\ op' = "none"
    /\ outcome' = NoOutcome
    /\ calls' = <<>>
    /\ UNCHANGED <<passthroughEnabled, model, query, prismaQuery, first>>
    /\ UNCHANGED <<genVars, extractVars, cliVars>>

Next ==
    \/ \E m \in ModelNames : \E q \in Queries(m) : CreateQuery(m, q)
    \/ \E raw \in Inputs(model) : Fetch(raw)
    \/ Parse
    \/ SafeParse
    \/ ArrayParse
    \/ ArraySafeParse
    \/ Reuse
    \/ ParseAgain

Spec == Init /\ [][Next]_vars

----------------------------------------------------------------------------
(* One executor kept and called many times, with the history of its first  *)
(* parse call.                                                             *)

\* the specs and raw values of the long-lived executors: every kind of
\* `select`, relations validated by their schemas, single rows and arrays
ReuseQueries(m) ==
    {q \in Queries(m) : \A key \in Range(q.keys) : q.vals[key] = RTrue}

ReuseInputs(m) == Items(m) \cup {Arr(<<x>>) : x \in Items(m)}

InitReuse ==
    /\ passthroughEnabled \in BOOLEAN
    /\ model = "none"
    /\ query = NoQuery
    /\ prismaQuery = EmptyMap
    /\ phase = "init"
    /\ input = NoValue
    /\ inputAfter = NoValue
    /\ op = "none"
    /\ outcome = NoOutcome
    /\ calls = <<>>
    /\ fedFrom = "none"
    /\ first = NoFirst(TRUE)
    /\ customSchemas = {}
    /\ fs = NoOutputDir
    /\ runs = 0
    /\ lastRun = NoRun
    /\ NoExtraction
    /\ NoCli

NextReuse ==
    \/ \E m \in ModelNames : \E q \in ReuseQueries(m) : CreateQuery(m, q)
    \/ \E raw \in ReuseInputs(model) : Fetch(raw)
    \/ Parse
    \/ SafeParse
    \/ ArrayParse
    \/ ArraySafeParse
    \/ Reuse
    \/ ParseAgain

SpecReuse == InitReuse /\ [][NextReuse]_vars

TypeOK ==
    /\ phase \in {"init", "built", "fetched", "done"}
    /\ op \in {"none", "parse", "safeParse", "array.parse", "array.safeParse"}
    /\ outcome.kind \in {"none", "returned", "threw"}

----------------------------------------------------------------------------
(* The generator's runs *)

\* the generator's state at the start
InitGen ==
    /\ passthroughEnabled = FALSE
    /\ model = "none"
    /\ query = NoQuery
    /\ prismaQuery = EmptyMap
    /\ phase = "init"
    /\ input = NoValue
    /\ inputAfter = NoValue
    /\ op = "none"
    /\ outcome = NoOutcome
    /\ calls = <<>>
    /\ fedFrom = "none"
    /\ first = NoFirst(FALSE)
    /\ customSchemas = {}
    /\ fs \in {NoOutputDir, [NoOutputDir EXCEPT !.dir = TRUE]}
    /\ runs = 0
    /\ lastRun = NoRun
    /\ NoExtraction
    /\ NoCli

\* the user edits the Prisma schema: its @zodSchema annotations become S
EditPrismaSchema(S) ==
    /\ S # customSchemas
    /\ customSchemas' = S
    /\ UNCHANGED <<fs, runs, lastRun>>
    /\ UNCHANGED <<engineVars, extractVars, cliVars>>

\* the user replaces the placeholder of `name` in custom-schemas.ts by a
\* schema definition of their own
DefineCustomSchema(name) ==
    /\ existsSync(fs, "custom-schemas.ts")
    /\ name \in DOMAIN fs.files["custom-schemas.ts"].exports
    /\ fs.files["custom-schemas.ts"].exports[name] = Placeholder
    /\ fs' = [fs EXCEPT !.files["custom-schemas.ts"].exports[name] = "user"]
    /\ UNCHANGED <<customSchemas, runs, lastRun>>
    /\ UNCHANGED <<engineVars, extractVars, cliVars>>

\* the end of a generate run
EndRun(run, cmd) ==
    /\ fs' = run.fs
    /\ lastRun' = [cmd |-> cmd, dryRun |-> run.dryRun, log |-> run.log,
                   error |-> run.error]
    /\ runs' = runs + 1
    /\ UNCHANGED customSchemas
    /\ UNCHANGED <<engineVars, extractVars, cliVars>>

\* `prisma generate` runs the generator; dry tells ZODIPUS_DRY_RUN = 'true',
\* cmd is ZODIPUS_CMD, output tells whether the generator block names an
\* output directory
Generate(dry, cmd, output) ==
    /\ runs < MaxRuns
    /\ EndRun(generateOptions(fs, customSchemas, dry, cmd, output), cmd)

NextGen ==
    \/ \E S \in SUBSET SchemaNames : EditPrismaSchema(S)
    \/ \E name \in SchemaNames : DefineCustomSchema(name)
    \/ \E dry \in BOOLEAN : \E cmd \in {"generate", "inspect"} :
          \E output \in BOOLEAN : Generate(dry, cmd, output)

SpecGen == InitGen /\ [][NextGen]_vars

----------------------------------------------------------------------------
(* Relation extraction, step by step *)

\* the call of extractForModel on top of the stack, its caller, and the
\* field a frame's loop is at
Top == stack[Len(stack)]
Caller == stack[Len(stack) - 1]
FieldAt(frame) == dmmf[frame.modelName][frame.i]

\* the frame's loop over model.fields has come to its end, or the call
\* returns {} from one of its first lines
AtReturn(frame) ==
    \/ frame.pc = "return"
    \/ /\ frame.pc = "loop"
       /\ frame.i > Len(dmmf[frame.modelName])

InitExtract ==
    /\ passthroughEnabled = FALSE
    /\ model = "none"
    /\ query = NoQuery
    /\ prismaQuery = EmptyMap
    /\ phase = "init"
    /\ input = NoValue
    /\ inputAfter = NoValue
    /\ op = "none"
    /\ outcome = NoOutcome
    /\ calls = <<>>
    /\ fedFrom = "none"
    /\ first = NoFirst(FALSE)
    /\ customSchemas = {}
    /\ fs = NoOutputDir
    /\ runs = 0
    /\ lastRun = NoRun
    /\ dmmf \in Schemas
    /\ maxDepth = NoValue
    /\ stack = <<>>
    /\ relations = EmptyMap
    /\ rootIndex = 1
    /\ NoCli

\* parseConfig(options) reads relationDepth from the generator block
ParseConfig(value) ==
    /\ maxDepth = NoValue
    /\ maxDepth' = relationDepth(value)
    /\ UNCHANGED <<dmmf, stack, relations, rootIndex>>
    /\ UNCHANGED <<engineVars, genVars, cliVars>>

\* for (const model of dmmf.datamodel.models):
\* extractForModel(model.name, 0, new Set())
BeginModel ==
    /\ maxDepth # NoValue
    /\ stack = <<>>
    /\ rootIndex <= Len(ModelList)
    /\ stack' = <<Frame(ModelList[rootIndex], 0, {})>>
    /\ UNCHANGED <<dmmf, maxDepth, relations, rootIndex>>
    /\ UNCHANGED <<engineVars, genVars, cliVars>>

\* the first lines of extractForModel: return {} past the depth, on a
\* visited model, or on a name the model map lacks; otherwise
\* newVisited = visited + modelName and the loop begins
Enter ==
    /\ stack # <<>>
    /\ Top.pc = "entry"
    /\ stack' =
          [stack EXCEPT ![Len(stack)] =
              IF returnsEmpty(Top, maxDepth) THEN [@ EXCEPT !.pc = "return"]
              ELSE IF Top.modelName \notin DOMAIN dmmf
              THEN [@ EXCEPT !.pc = "return"]
              ELSE [@ EXCEPT !.pc = "loop",
                             !.visited = @ \cup {Top.modelName}]]
    /\ UNCHANGED <<dmmf, maxDepth, relations, rootIndex>>
    /\ UNCHANGED <<engineVars, genVars, cliVars>>

\* a field that is no relation (kind !== 'object') is passed over
SkipField ==
    /\ stack # <<>>
    /\ Top.pc = "loop"
    /\ Top.i <= Len(dmmf[Top.modelName])
    /\ FieldAt(Top).kind # "object"
    /\ stack' = [stack EXCEPT ![Len(stack)].i = @ + 1]
    /\ UNCHANGED <<dmmf, maxDepth, relations, rootIndex>>
    /\ UNCHANGED <<engineVars, genVars, cliVars>>

\* a relation field: extractForModel(field.type, depth + 1, newVisited)
CallField ==
    /\ stack # <<>>
    /\ Len(stack) < MaxStack
    /\ Top.pc = "loop"
    /\ Top.i <= Len(dmmf[Top.modelName])
    /\ FieldAt(Top).kind = "object"
    /\ stack' = Append(stack,
                       Frame(FieldAt(Top).type, Top.depth + 1, Top.visited))
    /\ UNCHANGED <<dmmf, maxDepth, relations, rootIndex>>
    /\ UNCHANGED <<engineVars, genVars, cliVars>>

\* a nested call returns: result[field.name] = {type, isArray, relations?}
\* in the caller, whose loop moves on
ReturnToCaller ==
    /\ Len(stack) > 1
    /\ AtReturn(Top)
    /\ stack' =
          Append(SubSeq(stack, 1, Len(stack) - 2),
                 [Caller EXCEPT
                     !.result = Merge(Single(FieldAt(Caller).name,
                                             RelationConfigOf(FieldAt(Caller),
                                                              Top.result)),
                                      @),
                     !.i = @ + 1])
    /\ UNCHANGED <<dmmf, maxDepth, relations, rootIndex>>
    /\ UNCHANGED <<engineVars, genVars, cliVars>>

\* the call for a model of the schema returns: its relations are kept under
\* the model's camel-cased name when there are any
ReturnToLoop ==
    /\ Len(stack) = 1
    /\ AtReturn(Top)
    /\ relations' =
          IF DOMAIN Top.result # {}
          THEN Merge(Single(toCamelCase(Top.modelName), Top.result), relations)
          ELSE relations
    /\ rootIndex' = rootIndex + 1
    /\ stack' = <<>>
    /\ UNCHANGED <<dmmf, maxDepth>>
    /\ UNCHANGED <<engineVars, genVars, cliVars>>

NextExtract ==
    \/ \E value \in RelationDepths : ParseConfig(value)
    \/ BeginModel
    \/ Enter
    \/ SkipField
    \/ CallField
    \/ ReturnToCaller
    \/ ReturnToLoop

\* extractRelationsFromDMMF is synchronous code: once begun it runs on
SpecExtract == InitExtract /\ [][NextExtract]_vars /\ WF_vars(NextExtract)

\* extractRelationsFromDMMF has returned `relations`
Extracted ==
    /\ maxDepth # NoValue
    /\ stack = <<>>
    /\ rootIndex > Len(ModelList)

----------------------------------------------------------------------------
(* The CLI, step by step *)

\* the options of the two commands
InspectOptions == {"models", "enums", "relations", "json"}
GenerateOptions == {"output", "dryRun"}

CommandLines ==
    {[command |-> "inspect", options |-> o] : o \in SUBSET InspectOptions}
    \cup {[command |-> "generate", options |-> o] : o \in SUBSET GenerateOptions}

\* flags of the inspect action, in the order they are pushed; the joined
\* string is kept by its parts
InspectFlags(options) ==
    SelectSeq(<<"models", "enums", "relations">>, LAMBDA f : f \in options)

\* options.x ? 'true' : 'false'
TrueFalse(b) == IF b THEN "true" ELSE "false"

\* the env argument of runPrismaGenerate
EnvOf(line) ==
    IF line.command = "inspect"
    THEN [ZODIPUS_CMD |-> "inspect",
          ZODIPUS_INSPECT_FLAGS |-> InspectFlags(line.options),
          ZODIPUS_INSPECT_JSON |-> TrueFalse("json" \in line.options)]
    ELSE [ZODIPUS_CMD |-> "generate",
          ZODIPUS_DRY_RUN |-> TrueFalse("dryRun" \in line.options)]

\* the events of a ChildProcess the CLI listens to
CloseEvent(code) == [name |-> "close", code |-> code]
ErrorEvent == [name |-> "error", code |-> NoValue]

\* a child that ran ends with an exit code, or with null when a signal
\* killed it; a child that could not be spawned closes with a negative code
ExitCodes == {Num(0), Num(1), Num(2), Null}
SpawnErrorCode == Num(0 - 2)

\* the promise of runPrismaGenerate
Pending == [state |-> "pending", reason |-> NoValue]
Resolved == [state |-> "resolved", reason |-> NoValue]
RejectedWith(reason) == [state |-> "rejected", reason |-> reason]

\* new Error(`Prisma generate failed with exit code ${code}`)
ExitCodeError(code) ==
    [name |-> "Error", message |-> "Prisma generate failed with exit code",
     code |-> code]

\* the err of an 'error' event
SpawnError == [name |-> "Error", message |-> "spawn", code |-> NoValue]

\* the 'close' listener with `!code` for `code === 0`
onClose_falsyCode(code) ==
    IF code \in {Num(0), Null} THEN Resolved
    ELSE RejectedWith(ExitCodeError(code))

\* child.on('close', (code) => code === 0 ? resolvePromise() : reject(...))
onClose(code) ==
    IF code = Num(0) THEN Resolved ELSE RejectedWith(ExitCodeError(code))

\* child.on('error', (err) => reject(err))
onError == RejectedWith(SpawnError)

\* what the listener of an event asks of the promise
Listener(event) ==
    IF event.name = "close" THEN onClose(event.code) ELSE onError

\* resolvePromise() and reject() settle a pending promise and do nothing to
\* a settled one
Settle(p, asked) == IF p.state = "pending" THEN asked ELSE p

InitCli ==
    /\ passthroughEnabled = FALSE
    /\ model = "none"
    /\ query = NoQuery
    /\ prismaQuery = EmptyMap
    /\ phase = "init"
    /\ input = NoValue
    /\ inputAfter = NoValue
    /\ op = "none"
    /\ outcome = NoOutcome
    /\ calls = <<>>
    /\ fedFrom = "none"
    /\ first = NoFirst(FALSE)
    /\ customSchemas = {}
    /\ fs = NoOutputDir
    /\ runs = 0
    /\ lastRun = NoRun
    /\ NoExtraction
    /\ NoCli

\* program.parse() runs the command's action up to its await:
\* runPrismaGenerate spawns the child and returns a pending promise
RunCommand(line) ==
    /\ argv = NoCommand
    /\ argv' = line
    /\ childEnv' = EnvOf(line)
    /\ child' = [state |-> "spawned", code |-> NoValue]
    /\ promise' = Pending
    /\ UNCHANGED <<events, exitCode>>
    /\ UNCHANGED <<engineVars, genVars, extractVars>>

\* the process could not be spawned: 'error', then 'close'
SpawnFails ==
    /\ child.state = "spawned"
    /\ child' = [state |-> "failed", code |-> SpawnErrorCode]
    /\ events' = events \o <<ErrorEvent, CloseEvent(SpawnErrorCode)>>
    /\ UNCHANGED <<argv, childEnv, promise, exitCode>>
    /\ UNCHANGED <<engineVars, genVars, extractVars>>

\* the child has ended and its stdio is closed: 'close'
ChildCloses(code) ==
    /\ child.state = "spawned"
    /\ child' = [state |-> "closed", code |-> code]
    /\ events' = Append(events, CloseEvent(code))
    /\ UNCHANGED <<argv, childEnv, promise, exitCode>>
    /\ UNCHANGED <<engineVars, genVars, extractVars>>

\* the event loop hands the next event to its listener
Deliver ==
    /\ exitCode = NoValue
    /\ events # <<>>
    /\ promise' = Settle(promise, Listener(Head(events)))
    /\ events' = Tail(events)
    /\ UNCHANGED <<argv, childEnv, child, exitCode>>
    /\ UNCHANGED <<engineVars, genVars, extractVars>>

\* the await throws: catch (error) { console.error(...); process.exit(1) }
Catch ==
    /\ exitCode = NoValue
    /\ promise.state = "rejected"
    /\ exitCode' = Num(1)
    /\ UNCHANGED <<argv, childEnv, child, events, promise>>
    /\ UNCHANGED <<engineVars, genVars, extractVars>>

\* the await returns and with it the action; nothing is left to wait for
\* and the process ends with code 0
Return ==
    /\ exitCode = NoValue
    /\ promise.state = "resolved"
    /\ events = <<>>
    /\ exitCode' = Num(0)
    /\ UNCHANGED <<argv, childEnv, child, events, promise>>
    /\ UNCHANGED <<engineVars, genVars, extractVars>>

NextCli ==
    \/ \E line \in CommandLines : RunCommand(line)
    \/ SpawnFails
    \/ \E code \in ExitCodes : ChildCloses(code)
    \/ Deliver
    \/ Catch
    \/ Return

\* the event loop hands over every emitted event, and a settled promise
\* resumes the action that awaits it
SpecCli ==
    /\ InitCli
    /\ [][NextCli]_vars
    /\ WF_vars(Deliver)
    /\ WF_vars(Catch)
    /\ WF_vars(Return)

----------------------------------------------------------------------------
(* Properties of query compilation *)

\* the map under the compiled query's top-level key
TopMap == prismaQuery[CHOOSE key \in DOMAIN prismaQuery : TRUE]

\* the field names the query's `select` lists
SelectFields == IF query.select.k = "obj" THEN DOMAIN query.select.f ELSE {}

\* C1 as stated: the compiled query has exactly one top-level key, and it is
\* `select` iff the spec lists at least one scalar field, `include` otherwise.
C1_SelectIffFieldDeclared ==
    phase # "init" =>
        /\ Cardinality(DOMAIN prismaQuery) = 1
        /\ DOMAIN prismaQuery \subseteq {"select", "include"}
        /\ ("select" \in DOMAIN prismaQuery) <=> (SelectFields # {})

\* C1 amended: the compiled query has exactly one top-level key, and it is
\* `select` iff the spec carries a `select` object, be it empty, `include`
\* otherwise (no `select` key, or `select: undefined`).
C1_SelectIffSelectGiven ==
    phase # "init" =>
        /\ Cardinality(DOMAIN prismaQuery) = 1
        /\ DOMAIN prismaQuery \subseteq {"select", "include"}
        /\ ("select" \in DOMAIN prismaQuery) <=> (query.select.k = "obj")

\* an executor built from a spec whose field set is present but empty
C1_Witness ==
    /\ phase = "built"
    /\ query.select = SelObj(EmptyMap)
    /\ prismaQuery = [select |-> relationEntries(query)]

\* every relation entry of the spec names a relation of the model
AllRelationsKnown ==
    /\ model \in DOMAIN ConfigRelations
    /\ Range(query.keys) \subseteq DOMAIN ConfigRelations[model]

\* C2: for a spec with fields F (each mapped to true) and relation entries
\* known to the descriptor map, the chosen top-level map holds exactly the
\* fields of F mapped to true and the declared relations, `true` for a `true`
\* spec and {select: fields} for a spec with fields; the two scenarios of
\* the spec compile as written there.
C2_CompiledMapIsFieldsPlusRelations ==
    (/\ phase # "init"
     /\ AllRelationsKnown
     /\ \A fld \in SelectFields : query.select.f[fld] = RTrue)
    =>
        /\ DOMAIN TopMap = SelectFields \cup Range(query.keys)
        /\ \A fld \in SelectFields : TopMap[fld] = RTrue
        /\ \A key \in Range(query.keys) :
              /\ query.vals[key] = RTrue => TopMap[key] = RTrue
              /\ query.vals[key].k = "select" =>
                    TopMap[key] = [k |-> "select",
                                   select |-> query.vals[key].select]
        /\ query = Query(SelObj([id |-> RTrue, email |-> RTrue]), <<"posts">>,
                         [posts |-> RTrue])
              => prismaQuery = [select |-> [id |-> RTrue, email |-> RTrue,
                                            posts |-> RTrue]]
        /\ query = Query(SelAbsent, <<"posts">>,
                         [posts |-> RSelect([title |-> RTrue])])
              => prismaQuery =
                    [include |-> [posts |-> [k |-> "select",
                                             select |-> [title |-> RTrue]]]]

\* an executor for fields {id, email} with posts: true and a profile narrowed
\* to {bio}
C2_Witness ==
    /\ phase = "built"
    /\ model = "user"
    /\ query.select = SelObj([id |-> RTrue, email |-> RTrue])
    /\ query.vals = [posts |-> RTrue, profile |-> RSelect([bio |-> RTrue])]
    /\ DOMAIN prismaQuery = {"select"}

\* a relation entry, at this level or below, that the descriptor map of its
\* level does not know
RECURSIVE HasUnknownRelation(_, _)
HasUnknownRelation(entries, descriptors) ==
    \E key \in DOMAIN entries :
        \/ key \notin DOMAIN descriptors
        \/ /\ entries[key].k = "include"
           /\ HasUnknownRelation(entries[key].include,
                                 descriptors[key].relations)

\* the relation entries of the compiled top-level map
CompiledRelations == [key \in (DOMAIN TopMap) \ SelectFields |-> TopMap[key]]

\* C3 as stated: a relation name of the spec, at any level, that is not a key
\* of the descriptor map of that level is absent from the compiled query.
C3_UnknownRelationsDropped ==
    (phase # "init" /\ model \in DOMAIN ConfigRelations) =>
        ~HasUnknownRelation(CompiledRelations, ConfigRelations[model])

----------------------------------------------------------------------------
(* Properties of the parse forms.  They are stated on the state a call     *)
(* leaves behind: the form called (op), the raw input, the outcome and the *)
(* schema invocations made (calls).                                        *)

SafeForms == {"safeParse", "array.safeParse"}
ArrayForms == {"array.parse", "array.safeParse"}

\* the call produced a value: parse returned, safeParse returned a success
Succeeded ==
    /\ outcome.kind = "returned"
    /\ op \in SafeForms => outcome.value.success

\* the value produced by a call that succeeded
Data == IF op \in SafeForms THEN outcome.value.data ELSE outcome.value

\* the top-level items the call was given, and their results on success
TopItems ==
    IF op \in ArrayForms THEN (IF input.t = "arr" THEN input.a ELSE <<>>)
    ELSE <<input>>
TopResults == IF op \in ArrayForms THEN Data.a ELSE <<Data>>

\* the positions in `calls` of the invocations on top-level item i itself
SelfCalls(i) ==
    {n \in DOMAIN calls : calls[n].via = "self" /\ calls[n].item = i}

\* the invocations made for relation `key` of top-level item i, in order
RelationCalls(i, key) ==
    SelectSeq(calls, LAMBDA c : c.item = i /\ c.via = key)

\* key names a relation of the executor's model
KnownRelation(key) ==
    /\ model \in DOMAIN ConfigRelations
    /\ key \in DOMAIN ConfigRelations[model]

\* the relation keys the loop assigns on `item`
AssignedKeys(item) ==
    {key \in Range(query.keys) : KnownRelation(key) /\ KeyIn(key, item)}

\* res is `base` plus the relation keys assigned for `item`
BaseIs(res, base, item) ==
    IF base.t # "obj" THEN res = base
    ELSE /\ res.t = "obj"
         /\ (DOMAIN res.f) \ AssignedKeys(item)
               = (DOMAIN base.f) \ AssignedKeys(item)
         /\ \A key \in (DOMAIN base.f) \ AssignedKeys(item) :
               res.f[key] = base.f[key]

C5_RelationTrustBoundary ==
    phase = "done" =>
        /\ \A n \in DOMAIN calls :
              calls[n].via # "self" => query.vals[calls[n].via].k # "select"
        /\ Succeeded =>
              \A i \in DOMAIN TopItems : \A key \in AssignedKeys(TopItems[i]) :
                  LET rel == TopItems[i].f[key]
                      relationType == ConfigRelations[model][key].type
                      got == TopResults[i].f[key]
                  IN rel # Null =>
                      /\ query.vals[key].k = "select" => got = rel
                      /\ (query.vals[key] = RTrue /\ rel.t = "arr") =>
                            /\ got.t = "arr"
                            /\ Len(got.a) = Len(rel.a)
                            /\ \A j \in DOMAIN rel.a :
                                  got.a[j] = SchemaParse(relationType, rel.a[j]).val
                            /\ RelationCalls(i, key) =
                                  [j \in DOMAIN rel.a |->
                                      Call(relationType, rel.a[j], i, key)]
                      /\ (query.vals[key] = RTrue /\ rel.t # "arr") =>
                            /\ got = SchemaParse(relationType, rel).val
                            /\ RelationCalls(i, key) =
                                  <<Call(relationType, rel, i, key)>>

\* posts: true validated both posts, profile: {select} left the profile as is
C5_Witness ==
    /\ phase = "done"
    /\ op = "parse"
    /\ ~passthroughEnabled
    /\ Succeeded
    /\ query.vals = [posts |-> RTrue, profile |-> RSelect([bio |-> RTrue])]
    /\ KeyIn("posts", input) /\ input.f["posts"] = Arr(<<PostExtra, PostOk>>)
    /\ KeyIn("profile", input) /\ input.f["profile"] = ProfileExtra
    /\ Data.f["posts"] = Arr(<<PostOk, PostOk>>)
    /\ Data.f["profile"] = ProfileExtra
    /\ Len(RelationCalls(1, "posts")) = 2

\* the query without its entry for `key`
QueryWithout(q, key) ==
    Query(q.select, SelectSeq(q.keys, LAMBDA k : k # key),
          [k \in (DOMAIN q.vals) \ {key} |-> q.vals[k]])

\* C6: a null under a declared, known relation key is assigned as null, the
\* target schema is not invoked for it, and it never causes a failure: the
\* call succeeds exactly when it does with that relation left out of the
\* spec, whatever the relation's spec is.
C6_NullRelation ==
    phase = "done" =>
        \A i \in DOMAIN TopItems : \A key \in AssignedKeys(TopItems[i]) :
            TopItems[i].f[key] = Null =>
                /\ \A n \in DOMAIN calls :
                      ~(calls[n].item = i /\ calls[n].via = key)
                /\ Succeeded => TopResults[i].f[key] = Null
                /\ Succeeded <=>
                      createParser(model, QueryWithout(query, key),
                                   op \in ArrayForms, input).err = NoError

\* a user without profile parsed with profile: true
C6_Witness ==
    /\ phase = "done"
    /\ op = "parse"
    /\ query.select = SelObj([id |-> RTrue, email |-> RTrue])
    /\ query.vals = [profile |-> RTrue]
    /\ KeyIn("profile", input) /\ input.f["profile"] = Null
    /\ Succeeded
    /\ Data.f["profile"] = Null
    /\ calls = <<>>

\* C7: on a raw value that is null or a primitive, parse throws and safeParse
\* returns a failure, for every spec; safeParse never returns a success
\* whose data is null.
C7_NullRawFails ==
    phase = "done" =>
        /\ (op = "parse" /\ input.t \in {"null", "prim"}) =>
              outcome.kind = "threw"
        /\ (op = "safeParse" /\ input.t \in {"null", "prim"}) =>
              /\ outcome.kind = "returned"
              /\ outcome.value.success = FALSE
        /\ (op = "safeParse" /\ Succeeded) => Data # Null

\* safeParse(null) on an executor whose spec selects fields
C7_Witness ==
    /\ phase = "done"
    /\ op = "safeParse"
    /\ input = Null
    /\ query.select.k = "obj"
    /\ outcome = Returned([success |-> FALSE,
                           error |-> InvalidDataError(model, Null)])

\* C8: safeParse and array().safeParse never throw: they return
\* {success: true, data} or {success: false, error}, and a failure result
\* has no data.
C8_SafeParseNeverThrows ==
    (phase = "done" /\ op \in SafeForms) =>
        /\ outcome.kind = "returned"
        /\ \/ /\ DOMAIN outcome.value = {"success", "data"}
              /\ outcome.value.success = TRUE
           \/ /\ DOMAIN outcome.value = {"success", "error"}
              /\ outcome.value.success = FALSE
              /\ outcome.value.error # NoError

\* array().safeParse on a value that is no array
C8_Witness ==
    /\ phase = "done"
    /\ op = "array.safeParse"
    /\ input.t = "obj"
    /\ outcome = Returned([success |-> FALSE, error |-> TypeError])

\* single-item parse of element i of the input array
ItemParse(i) == parseRelations(model, query, input.a[i], i)

\* C9: array().parse of an empty sequence returns an empty sequence; of N
\* items that all succeed it returns N results, result i being what the
\* single-item parse returns for item i.
C9_ArrayParsePreservesOrder ==
    (phase = "done" /\ op = "array.parse" /\ input.t = "arr") =>
        /\ input.a = <<>> => outcome = Returned(Arr(<<>>))
        /\ (\A i \in DOMAIN input.a : ItemParse(i).err = NoError) =>
              /\ outcome.kind = "returned"
              /\ outcome.value.t = "arr"
              /\ Len(outcome.value.a) = Len(input.a)
              /\ \A i \in DOMAIN input.a :
                    outcome.value.a[i] = ItemParse(i).val

\* two different items, both parsed
C9_Witness ==
    /\ phase = "done"
    /\ op = "array.parse"
    /\ input.t = "arr"
    /\ Len(input.a) = 2
    /\ outcome.kind = "returned"
    /\ outcome.value.a[1] # outcome.value.a[2]

\* the schema invocations of the single-item parses of elements 1..k
RECURSIVE CallsUpTo(_)
CallsUpTo(k) ==
    IF k = 0 THEN <<>> ELSE CallsUpTo(k - 1) \o ItemParse(k).calls

\* C10: when element k is the first of the sequence to fail, array().parse
\* throws that element's error, the schema invocations made are those of
\* elements 1..k in input order, and none is made for elements k+1..N.
C10_ArrayParseShortCircuits ==
    (/\ phase = "done" /\ op = "array.parse" /\ input.t = "arr"
     /\ \E i \in DOMAIN input.a : ItemParse(i).err # NoError)
    =>
        LET k == CHOOSE i \in DOMAIN input.a :
                    /\ ItemParse(i).err # NoError
                    /\ \A j \in 1..(i - 1) : ItemParse(j).err = NoError
        IN /\ outcome = Threw(ItemParse(k).err)
           /\ calls = CallsUpTo(k)
           /\ \A n \in DOMAIN calls : calls[n].item <= k

\* the first element is rejected by the schema, the second would pass
C10_Witness ==
    /\ phase = "done"
    /\ op = "array.parse"
    /\ query.select = SelAbsent
    /\ input.t = "arr"
    /\ Len(input.a) = 2
    /\ ItemParse(1).err # NoError
    /\ ItemParse(2).err = NoError
    /\ ItemParse(2).calls # <<>>
    /\ outcome.kind = "threw"
    /\ Len(calls) = 1

----------------------------------------------------------------------------
(* Properties of createQuery *)

\* C11 as stated: createQuery fails when it is called with a name that is
\* absent from config.models or from config.relations, so no builder, and no
\* executor, ever exists for such a name.
C11_CreateQueryFailsFast ==
    phase # "init" =>
        /\ model \in ConfigModels
        /\ model \in DOMAIN ConfigRelations

----------------------------------------------------------------------------
(* Properties of the failures the parse forms surface *)

\* the error a failed call surfaced: thrown by parse, boxed by safeParse
Failure == IF outcome.kind = "threw" THEN outcome.error ELSE outcome.value.error

\* C12 as stated: when the spec declares no fields and the model's schema
\* rejects the raw item, the failure surfaced by parse and by safeParse is a
\* ZodipusValidationError whose context names the model, not the schema's
\* own error.
C12_ValidationFailureTagged ==
    (/\ phase = "done"
     /\ op \in {"parse", "safeParse"}
     /\ query.select.k # "obj"
     /\ model \in ConfigModels
     /\ input.t = "obj"
     /\ BadFields(model, input) # {})
    =>
        /\ ~Succeeded
        /\ Failure.name = "ZodipusValidationError"
        /\ Failure.model = model

----------------------------------------------------------------------------
(* Properties of the raw value and of the executor across calls *)

\* C13 as stated: no parse form modifies the raw value it is given, nor an
\* object nested in it: after the call, whether it succeeded or failed, the
\* raw value equals what it was before the call, for every spec.
C13_RawNeverModified == phase = "done" => inputAfter = input

C15_ParseIsIdempotent ==
    (phase = "done" /\ op = "parse" /\ fedFrom = "parse") =>
        outcome = Returned(input)

\* a fully validated comment with a Decimal column and validated replies,
\* parsed a second time
C15_Witness ==
    /\ phase = "done"
    /\ op = "parse"
    /\ fedFrom = "parse"
    /\ ~passthroughEnabled
    /\ query.select = SelAbsent
    /\ query.vals = [replies |-> RTrue]
    /\ KeyIn("replies", input)
    /\ input.f["replies"] = Arr(<<Obj([body |-> Prim("x"), score |-> Prim("5")])>>)
    /\ Len(calls) = 2
    /\ outcome = Returned(input)

----------------------------------------------------------------------------
(* Properties of the result's shape under a select *)

\* the keys the spec declares: its selected fields and its relation names
DeclaredKeys == SelectFields \cup Range(query.keys)

\* C16 as stated: when the spec declares fields F, the value parse returns
\* has no keys other than the fields of F and the relation names of the spec,
\* whatever extra keys the raw value carries.
C16_ExactlyDeclaredShape ==
    (/\ phase = "done" /\ op = "parse" /\ query.select.k = "obj"
     /\ input.t = "obj" /\ Succeeded)
    => DOMAIN Data.f \subseteq DeclaredKeys

\* C16 amended: when the spec declares fields F, the value parse returns has
\* exactly the keys of the raw value, each key that is not an assigned
\* relation with the raw value's own value; so it has no keys other than F
\* and the spec's relation names when the raw value has none.
C16_SelectKeepsRawKeys ==
    (/\ phase = "done" /\ op = "parse" /\ query.select.k = "obj"
     /\ input.t = "obj" /\ Succeeded)
    =>
        /\ Data.t = "obj"
        /\ DOMAIN Data.f = DOMAIN input.f
        /\ \A key \in (DOMAIN input.f) \ AssignedKeys(input) :
              Data.f[key] = input.f[key]
        /\ DOMAIN input.f \subseteq DeclaredKeys
              => DOMAIN Data.f \subseteq DeclaredKeys

\* fields {id, email} selected, and the raw row carries `name` as well
C16_Witness ==
    /\ phase = "done"
    /\ op = "parse"
    /\ query.select = SelObj([id |-> RTrue, email |-> RTrue])
    /\ query.keys = <<"posts">>
    /\ input.t = "obj"
    /\ DOMAIN input.f = {"id", "email", "name", "posts"}
    /\ Succeeded
    /\ KeyIn("name", Data)

\* C17 as stated: when the spec declares fields F, parse throws and safeParse
\* fails for a raw object that lacks one of the fields of F.
C17_MissingSelectedFieldFails ==
    (/\ phase = "done" /\ op \in {"parse", "safeParse"}
     /\ query.select.k = "obj" /\ input.t = "obj"
     /\ \E fld \in SelectFields :
           query.select.f[fld] = RTrue /\ fld \notin DOMAIN input.f)
    => ~Succeeded

\* C18 as stated: parse throws and safeParse fails when the raw value is an
\* array instead of a single object, for every spec.
C18_ArrayRawFailsSingleParse ==
    (phase = "done" /\ op \in {"parse", "safeParse"} /\ input.t = "arr")
    => ~Succeeded

----------------------------------------------------------------------------
(* The empty spec *)

\* the spec has no field set (no `select`, or `select: undefined`) and no
\* relation entry
EmptySpec == query.select.k # "obj" /\ query.keys = <<>>

\* C28 as stated: a spec with no fields and no relations, as userQuery({}),
\* compiles to the `select` form.
C28_EmptySpecCompilesToSelect ==
    (phase # "init" /\ EmptySpec) => "select" \in DOMAIN prismaQuery

\* C28 amended: a spec with no fields and no relations compiles to the
\* `include` form with an empty map, {include: {}}.
C28_EmptySpecCompilesToInclude ==
    (phase # "init" /\ EmptySpec) => prismaQuery = [include |-> EmptyMap]

\* userQuery({}) compiled to {include: {}}, and its array().parse validated
\* the rows of a findMany
C28_Witness ==
    /\ phase = "done"
    /\ model = "user"
    /\ query = Query(SelAbsent, <<>>, EmptyMap)
    /\ prismaQuery = [include |-> EmptyMap]
    /\ op = "array.parse"
    /\ input.t = "arr"
    /\ Len(input.a) = 2
    /\ Succeeded

----------------------------------------------------------------------------
(* Properties of the relation loop *)

\* C24 as stated: in a call that succeeds, a declared, known relation whose
\* spec is {include: ...} (nested relations, no fields) and whose raw value
\* is not null has had the target schema invoked on the raw value, or on
\* every element of it, and the result holds the schema's outputs.
C24_IncludeRelationValidated ==
    (phase = "done" /\ Succeeded) =>
        \A i \in DOMAIN TopItems : \A key \in AssignedKeys(TopItems[i]) :
            LET rel == TopItems[i].f[key]
                relationType == ConfigRelations[model][key].type
            IN (/\ query.vals[key].k = "include"
                /\ DOMAIN query.vals[key].include # {}
                /\ rel # Null) =>
                  IF rel.t = "arr"
                  THEN \A j \in DOMAIN rel.a :
                          \E n \in DOMAIN calls :
                              calls[n] = Call(relationType, rel.a[j], i, key)
                  ELSE \E n \in DOMAIN calls :
                          calls[n] = Call(relationType, rel, i, key)

\* C25 as stated: when the descriptor map marks a declared relation as Many
\* (isArray true) and the raw value under its key is neither null nor an
\* array, the call fails.
C25_ManyRelationNeedsArray ==
    (/\ phase = "done"
     /\ \E i \in DOMAIN TopItems : \E key \in AssignedKeys(TopItems[i]) :
           /\ ConfigRelations[model][key].isArray
           /\ TopItems[i].f[key] # Null
           /\ TopItems[i].f[key].t # "arr")
    => ~Succeeded

\* C26: a relation the spec declares whose key the raw item lacks is skipped:
\* no schema is invoked for it on that item, a result for that item has no
\* such key, and when no top-level item carries the key the call ends as it
\* does with the relation left out of the spec.
C26_AbsentRelationSkipped ==
    phase = "done" =>
        \A key \in Range(query.keys) :
            /\ \A i \in DOMAIN TopItems :
                  ~KeyIn(key, TopItems[i]) =>
                      /\ \A n \in DOMAIN calls :
                            ~(calls[n].item = i /\ calls[n].via = key)
                      /\ Succeeded => ~KeyIn(key, TopResults[i])
            /\ (\A i \in DOMAIN TopItems : ~KeyIn(key, TopItems[i])) =>
                  /\ Succeeded <=>
                        createParser(model, QueryWithout(query, key),
                                     op \in ArrayForms, input).err = NoError
                  /\ ~Succeeded =>
                        Failure = createParser(model, QueryWithout(query, key),
                                               op \in ArrayForms, input).err
                  /\ Succeeded =>
                        Data = createParser(model, QueryWithout(query, key),
                                            op \in ArrayForms, input).val

\* a user row without posts, parsed with posts: true and profile: true; the
\* profile is validated, nothing is done for posts
C26_Witness ==
    /\ phase = "done"
    /\ op = "parse"
    /\ query.select = SelAbsent
    /\ query.vals = [posts |-> RTrue, profile |-> RTrue]
    /\ input.t = "obj"
    /\ ~KeyIn("posts", input)
    /\ KeyIn("profile", input)
    /\ Succeeded
    /\ ~KeyIn("posts", Data)
    /\ \E n \in DOMAIN calls : calls[n].via = "profile"

----------------------------------------------------------------------------
(* parse and safeParse side by side *)

\* what the executor's throwing form and its boxing form do on the raw value
\* of the call that has just ended
ThrowingForm == parse(createParser(model, query, op \in ArrayForms, input))
BoxingForm == safeParse(createParser(model, query, op \in ArrayForms, input))

\* C27: on every executor and raw value, safeParse returns {success: true,
\* data: d} exactly when parse returns d, and {success: false, error} exactly
\* when parse throws, the error being the one parse throws; the same holds
\* between array().safeParse and array().parse.
C27_SafeParseMirrorsParse ==
    phase = "done" =>
        /\ op \in SafeForms =>
              /\ outcome.kind = "returned"
              /\ outcome.value.success <=> ThrowingForm.kind = "returned"
              /\ outcome.value.success =>
                    outcome.value.data = ThrowingForm.value
              /\ ~outcome.value.success =>
                    /\ ThrowingForm.kind = "threw"
                    /\ DOMAIN outcome.value = {"success", "error"}
                    /\ outcome.value.error = ThrowingForm.error
        /\ (op \notin SafeForms /\ outcome.kind = "returned") =>
              BoxingForm = Returned([success |-> TRUE, data |-> outcome.value])
        /\ (op \notin SafeForms /\ outcome.kind = "threw") =>
              BoxingForm = Returned([success |-> FALSE,
                                    error |-> outcome.error])

\* array().safeParse boxed the TypeError that array().parse throws on a
\* value that is no array
C27_Witness ==
    /\ phase = "done"
    /\ op = "array.safeParse"
    /\ input.t = "obj"
    /\ query.vals # EmptyMap
    /\ outcome.value.success = FALSE
    /\ ThrowingForm = Threw(TypeError)

----------------------------------------------------------------------------
(* Properties of the generator *)

\* the content of custom-schemas.ts
CustomSchemasFile(f) == f.files["custom-schemas.ts"]

C20_ImportsHaveExports ==
    (existsSync(fs, "models.ts") /\ fs.files["models.ts"].imports # {}) =>
        /\ existsSync(fs, "custom-schemas.ts")
        /\ fs.files["models.ts"].imports
              \subseteq DOMAIN CustomSchemasFile(fs).exports

\* C21: a generate run under ZODIPUS_DRY_RUN = 'true' leaves the file system
\* as it found it and makes no file-system operation: no directory is made
\* and no file is written, whatever the schema and the configuration.
C21_DryRunWritesNothing ==
    [][(runs' # runs /\ lastRun'.dryRun) =>
          /\ fs' = fs
          /\ lastRun'.log = <<>>]_vars

\* a dry run of the generate command went through every step, on a schema
\* with @zodSchema annotations, where a real run would have made the
\* directory and written custom-schemas.ts
C21_Witness ==
    /\ runs >= 1
    /\ lastRun.cmd = "generate"
    /\ lastRun.dryRun
    /\ lastRun.error = "none"
    /\ customSchemas # {}
    /\ ~fs.dir
    /\ ~existsSync(fs, "custom-schemas.ts")

\* C30 as stated: in a generate run that is not a dry run, no file is written
\* before the output directory has been made by the recursive mkdir.
C30_DirectoryMadeBeforeWrites ==
    \A i \in 1..Len(lastRun.log) :
        lastRun.log[i].op = "write" =>
            \E j \in 1..(i - 1) : lastRun.log[j].op = "mkdir"

----------------------------------------------------------------------------
(* Properties of the relation metadata *)

\* the greater of two numbers
Greatest(a, b) == IF a > b THEN a ELSE b

\* the longest chain of relations in a relation map, counted from the model
\* the map belongs to: over the keys of `keys`
RECURSIVE ChainLength(_, _)
ChainLength(map, keys) ==
    IF keys = {} THEN 0
    ELSE LET key == CHOOSE k \in keys : TRUE
         IN Greatest(
                1 + (IF "relations" \in DOMAIN map[key]
                     THEN ChainLength(map[key].relations,
                                      DOMAIN map[key].relations)
                     ELSE 0),
                ChainLength(map, keys \ {key}))

\* C22 as stated: with relationDepth = N, N being 1 or more, every relation
\* chain in the metadata of any model has at most N relations counted from
\* the model; under N = 1 no relation carries a nested `relations` map.
C22_DepthBoundsChains ==
    (Extracted /\ maxDepth.t = "num" /\ maxDepth.n >= 1) =>
        \A m \in DOMAIN relations :
            ChainLength(relations[m], DOMAIN relations[m]) <= maxDepth.n

\* along every chain of nested `relations` maps under `map`, no model of
\* `seen` is expanded, and none is expanded twice
RECURSIVE NoModelTwice(_, _)
NoModelTwice(map, seen) ==
    \A key \in DOMAIN map :
        "relations" \in DOMAIN map[key] =>
            /\ map[key].type \notin seen
            /\ NoModelTwice(map[key].relations, seen \cup {map[key].type})

\* C29: extractRelationsFromDMMF returns, for every schema over the models,
\* with self-references and cycles, and for every relationDepth, NaN
\* included; and along any chain of nested `relations` maps of what it
\* builds no model is expanded twice.
C29_ExtractionTerminates ==
    /\ <>Extracted
    /\ [](\A m \in DOMAIN relations : NoModelTwice(relations[m], {m}))

\* under a relationDepth that parsed to NaN the extraction has returned on a
\* schema with a self-reference and a cycle through three models, and the
\* chain user.posts.comments ends where it would come back to User
C29_Witness ==
    /\ Extracted
    /\ maxDepth = NaN
    /\ \E i \in DOMAIN dmmf["Comment"] : dmmf["Comment"][i].name = "replies"
    /\ "user" \in DOMAIN relations
    /\ "posts" \in DOMAIN relations["user"]
    /\ "relations" \in DOMAIN relations["user"]["posts"]
    /\ "comments" \in DOMAIN relations["user"]["posts"].relations
    /\ "relations" \in DOMAIN relations["user"]["posts"].relations["comments"]
    /\ relations["user"]["posts"].relations["comments"].relations
          = [replies |-> [type |-> "comment", isArray |-> TRUE],
             author |-> [type |-> "user", isArray |-> FALSE]]

----------------------------------------------------------------------------
(* Properties of the CLI *)

\* the spawned process closed with a code other than 0, or could not be
\* spawned ('error')
ChildFailed ==
    \/ child.state = "failed"
    \/ child.state = "closed" /\ child.code # Num(0)

\* C23: for both commands, the promise of runPrismaGenerate is resolved only
\* after a close with code 0; once the child has closed with another code
\* or emitted 'error' the CLI never ends with code 0, the promise is
\* rejected, and a rejected promise leads to process.exit(1).
C23_ChildFailureExitsNonZero ==
    /\ [](promise.state = "resolved" =>
            child = [state |-> "closed", code |-> Num(0)])
    /\ [](ChildFailed => exitCode # Num(0))
    /\ (ChildFailed ~> promise.state = "rejected")
    /\ (promise.state = "rejected" ~> exitCode = Num(1))

\* `zodipus generate --dry-run` ended with code 1 after its child was killed
\* by a signal and closed with code null
C23_Witness ==
    /\ argv = [command |-> "generate", options |-> {"dryRun"}]
    /\ childEnv.ZODIPUS_DRY_RUN = "true"
    /\ child = [state |-> "closed", code |-> Null]
    /\ promise = RejectedWith(ExitCodeError(Null))
    /\ events = <<>>
    /\ exitCode = Num(1)

====
